---- MODULE Spec2Model ----
(***************************************************************************)
(* Evidence processing pipeline of booppa_backend: the ledger adapter      *)
(* (app/services/blockchain.py), the tier policy                           *)
(* (app/billing/enforcement.py), the audit chain                           *)
(* (app/services/audit_chain.py), the report workflow                      *)
(* (app/workers/tasks.py) and the polling endpoint (app/api/reports.py).   *)
(*                                                                         *)
(* Python's None is the string "None"; a dict is a function whose domain   *)
(* is the set of keys present; a raised exception is a record with         *)
(* raised |-> TRUE.  SHA-256 is taken to be collision free: equal payloads *)
(* get equal digests and distinct payloads distinct ones.                  *)
(***************************************************************************)
EXTENDS Integers, Sequences, FiniteSets, TLC

VARIABLES
    \* ---- external ledger and BlockchainService callers
    chainAnchored,   \* digests for which the contract's isAnchored returns true
    mempool,         \* references of write transactions sent but not yet mined
    txs,             \* every write transaction ever sent, in order: [ref, hash]
    anchorCalls,     \* completed anchor_evidence calls, in order
    batchCall,       \* the last completed batch_anchor_hashes call
    hook,            \* the stripe_webhook request for the report
    \* ---- enforce_tier called on its own
    polInput,        \* [data, framework] given to enforce_tier
    polResult,       \* what enforce_tier did with polInput (Pending before the call)
    \* ---- process environment
    enfGlobals,      \* bindings of the free names of resolve_tier in its module
    config,          \* settings: SKIP_PDF_GENERATION, BLOCKCHAIN_PRIVATE_KEY set
    now,             \* wall clock, seconds
    \* ---- the persisted Report row and its audit chain
    exists,          \* the report row has been created
    report,          \* the row's columns
    events,          \* committed AuditChainEvent rows of the report
    stamp,           \* number of AuditChainEvent objects constructed so far
    shaTable,        \* the distinct payloads hashed so far (digest n is of payload n)
    \* ---- workflow runs and the polling endpoint
    runs,            \* run slot -> local state of a process_report_workflow call
    queued,          \* background tasks added and not yet started
    poll,            \* the get_report_by_session request in progress
    responses,       \* number of poll responses sent
    lastResponse,    \* the last poll response
    triggers,        \* workflow runs the polling endpoint started, in order
    \* ---- the task dispatcher (Celery) running process_report_task
    celery,          \* the task's request: retries, executions, what it enqueued
    \* ---- the monitor engine: app/orchestrator/engine.py
    cacheFiles,      \* cache directory: key -> content of the file, or Nothing
    tasks,           \* the asyncio tasks run_many created, in order
    monitor          \* the run_many call: urls, limit, semaphore, outcome, loop

vars == <<chainAnchored, mempool, txs, anchorCalls, batchCall, hook, polInput, polResult,
          enfGlobals, config, now, exists, report, events, stamp, shaTable,
          runs, queued, poll, responses, lastResponse, triggers,
          celery, cacheFiles, tasks, monitor>>

ledgerVars == <<chainAnchored, mempool, txs>>
policyVars == <<polInput, polResult>>
envVars == <<enfGlobals, config>>
reportVars == <<exists, report, events, stamp, shaTable>>
flowVars == <<runs, queued, poll, responses, lastResponse, triggers>>
engineVars == <<cacheFiles, tasks, monitor>>

None == "None"
\* Python's None where the other values are dicts; also a file that is absent
Nothing == [nothing |-> TRUE]

\* ---- dict helpers (a dict is a function over the keys present)
Has(d, k) == k \in DOMAIN d
Get(d, k, default) == IF k \in DOMAIN d THEN d[k] ELSE default
EmptyDict == [k \in {} |-> None]
\* dict.update / {**a, **b}: the keys of updates win
Merge(d, updates) == updates @@ d

(***************************************************************************)
(* LedgerAnchor: BlockchainService                                         *)
(***************************************************************************)
MaxAnchorCalls == 3
Digests == {"h1", "h2"}

TxRef(n) == "0xtx" \o ToString(n)

\* get_anchor_status: isAnchored(hash) on the contract; an RPC failure is
\* logged and leaves anchored False.  The dict it returns has no "tx_hash" key.
get_anchor_status(anchoredSet, h, rpcUp) ==
    [anchored |-> rpcUp /\ h \in anchoredSet,
     anchored_at |-> None,
     tx_confirmed |-> None]

\* status.get("tx_hash") or "already_anchored"
AlreadyAnchoredResult(status) ==
    IF Has(status, "tx_hash") /\ status["tx_hash"] # None
    THEN status["tx_hash"] ELSE "already_anchored"

\* anchor_evidence as a function of the ledger state it sees:
\* [raised, result, sent] where sent says a write transaction was submitted.
anchor_evidence(anchoredSet, sentSoFar, h, statusUp, keySet, sendUp) ==
    LET status == get_anchor_status(anchoredSet, h, statusUp) IN
    IF status.anchored
    THEN [raised |-> FALSE, result |-> AlreadyAnchoredResult(status), sent |-> FALSE]
    ELSE IF ~keySet \/ ~sendUp
    THEN [raised |-> TRUE, result |-> None, sent |-> FALSE]
    ELSE [raised |-> FALSE, result |-> TxRef(sentSoFar + 1), sent |-> TRUE]

\* the ledger after a call's outcome
LedgerAfter(out, h) ==
    /\ txs' = IF out.sent THEN Append(txs, [ref |-> out.result, hash |-> h]) ELSE txs
    /\ mempool' = IF out.sent THEN mempool \cup {out.result} ELSE mempool
    /\ chainAnchored' = chainAnchored

\* One whole anchor_evidence(h) call made by a caller that waits for it.
AnchorEvidence(h, statusUp, sendUp) ==
    /\ Len(anchorCalls) < MaxAnchorCalls
    /\ LET out == anchor_evidence(chainAnchored, Len(txs), h, statusUp,
                                  config.key_set, sendUp) IN
       /\ LedgerAfter(out, h)
       /\ anchorCalls' = Append(anchorCalls,
              [hash |-> h, raised |-> out.raised, result |-> out.result,
               sent |-> out.sent])
    /\ UNCHANGED <<batchCall, hook, policyVars, envVars, engineVars, celery, now, reportVars, flowVars>>

\* The network mines a pending transaction: the contract records its hash.
LedgerMine ==
    /\ \E i \in 1..Len(txs) :
         /\ txs[i].ref \in mempool
         /\ mempool' = mempool \ {txs[i].ref}
         /\ chainAnchored' = chainAnchored \cup {txs[i].hash}
    /\ UNCHANGED <<txs, anchorCalls, hook, batchCall, policyVars, envVars, engineVars, celery, now, reportVars, flowVars>>

\* ---- batch_anchor_hashes
MaxBatch == 2
MaxBatchTxs == 2
Invalid == "<not hex>"
\* evidence hashes as callers write them: plain, 0x-prefixed upper case, and
\* a string that is no hexadecimal number
RawHashes == {"h1", "0xH2", "zz"}

\* _hash_to_bytes32: strip, lower, drop a leading 0x, Web3.to_bytes (which
\* raises on a string that is not hex)
_hash_to_bytes32(evidence_hash) ==
    CASE evidence_hash = "0xH2" -> "h2"
      [] evidence_hash = "zz" -> Invalid
      [] OTHER -> evidence_hash

NoBatchCall ==
    [hashes |-> <<>>, reported |-> <<>>, before |-> 0, raised |-> FALSE,
     result |-> None, made |-> FALSE]

\* lines 116-117 with a status that counts every hash as missing
NeedsAnchor_always(status) == TRUE

\* lines 116-117: if not status.get("anchored")
NeedsAnchor(status) == ~status.anchored

\* lines 113-118: the loop that collects hashes_to_anchor; status[i] is what
\* get_anchor_status returned for the i-th hash
RECURSIVE hashes_to_anchor(_, _, _)
hashes_to_anchor(evidence_hashes, status, n) ==
    IF n = 0 THEN <<>>
    ELSE LET rest == hashes_to_anchor(evidence_hashes, status, n - 1) IN
         IF NeedsAnchor(status[n])
         THEN Append(rest, _hash_to_bytes32(evidence_hashes[n]))
         ELSE rest

\* batch_anchor_hashes as a function of the ledger state it sees; rpcDown is
\* the set of positions whose isAnchored call fails: [raised, result, batch]
\* where batch is the payload of the transaction submitted, <<>> when none
batch_anchor_hashes(anchoredSet, sentSoFar, evidence_hashes, rpcDown, keySet, sendUp) ==
    LET n == Len(evidence_hashes)
        status == [i \in 1..n |->
                      get_anchor_status(anchoredSet, _hash_to_bytes32(evidence_hashes[i]),
                          i \notin rpcDown /\ _hash_to_bytes32(evidence_hashes[i]) # Invalid)]
        to_anchor == hashes_to_anchor(evidence_hashes, status, n)
        out(raised, result, batch) ==
            [raised |-> raised, result |-> result, batch |-> batch,
             reported |-> [i \in 1..n |-> status[i].anchored]]
    IN
    IF \E i \in 1..Len(to_anchor) : to_anchor[i] = Invalid
    THEN out(TRUE, None, <<>>)
    ELSE IF to_anchor = <<>>
    THEN out(FALSE, "already_anchored", <<>>)
    ELSE IF ~keySet \/ ~sendUp
    THEN out(TRUE, None, <<>>)
    ELSE out(FALSE, TxRef(sentSoFar + 1), to_anchor)

\* One whole batch_anchor_hashes(hashes) call made by a caller that waits for it.
BatchAnchorHashes(evidence_hashes, rpcDown, sendUp) ==
    /\ Len(txs) < MaxBatchTxs
    /\ LET out == batch_anchor_hashes(chainAnchored, Len(txs), evidence_hashes, rpcDown,
                                      config.key_set, sendUp)
           sent == out.batch # <<>>
       IN
       /\ txs' = IF sent THEN Append(txs, [ref |-> out.result, batch |-> out.batch]) ELSE txs
       /\ mempool' = IF sent THEN mempool \cup {out.result} ELSE mempool
       /\ batchCall' = [hashes |-> evidence_hashes, reported |-> out.reported,
                        before |-> Len(txs), raised |-> out.raised,
                        result |-> out.result, made |-> TRUE]
    /\ UNCHANGED <<chainAnchored, anchorCalls, hook, policyVars, envVars, engineVars, celery, now,
                   reportVars, flowVars>>

\* The network mines a pending batch transaction: the contract records every
\* hash of its payload.
BatchMine ==
    /\ \E i \in 1..Len(txs) :
         /\ txs[i].ref \in mempool
         /\ mempool' = mempool \ {txs[i].ref}
         /\ chainAnchored' = chainAnchored \cup {txs[i].batch[k] : k \in 1..Len(txs[i].batch)}
    /\ UNCHANGED <<txs, anchorCalls, hook, batchCall, policyVars, envVars, engineVars, celery, now,
                   reportVars, flowVars>>

(***************************************************************************)
(* PolicyResolver: app/billing/enforcement.py                              *)
(***************************************************************************)
FREE == "FREE"
PRO == "PRO"
ENTERPRISE == "ENTERPRISE"
FREE_FRAMEWORKS == {"pdpa_free_scan"}
PRO_PRODUCT_KEYS ==
    {"pdpa_quick_scan", "pdpa_basic", "pdpa_pro", "compliance_standard",
     "compliance_pro", "supply_chain_1", "supply_chain_10", "supply_chain_50",
     "compliance_notarization_1", "compliance_notarization_10",
     "compliance_notarization_50"}

\* a name with no binding in the module's namespace
Unbound == "<unbound>"
NameError == "NameError"

\* str.strip().lower() on the raw strings the model feeds in
Lower(v) ==
    CASE v = "SUSPENDED" -> "suspended"
      [] v = " Active " -> "active"
      [] v = "PDPA_PRO" -> "pdpa_pro"
      [] OTHER -> v

\* _normalize: str(value or "").strip().lower()
_normalize(value) == IF value = None THEN "" ELSE Lower(value)

\* a or b or c over values that are strings or None
FirstTruthy(seq) ==
    LET truthy == {i \in 1..Len(seq) : seq[i] \notin {None, ""}} IN
    IF truthy = {} THEN seq[Len(seq)]
    ELSE seq[CHOOSE i \in truthy : \A j \in truthy : i <= j]

\* resolve_tier reads `tier` and `product_type`, which are neither parameters
\* nor locals of the function: Python looks them up in the module's globals
\* when the line runs, and raises NameError when the name has no binding.
\* g is that namespace; the parameter assessment_data is bound to `data`
\* and never read again.
resolve_tier(g, assessment_data, framework) ==
    LET framework_value == _normalize(framework) IN
    IF g.tier = Unbound THEN NameError
    ELSE IF g.tier \in {"enterprise", "ent", "enterprise_monthly"} THEN ENTERPRISE
    ELSE IF g.product_type = Unbound THEN NameError
    ELSE IF g.product_type \in PRO_PRODUCT_KEYS THEN PRO
    ELSE IF g.tier \in {"pro", "paid", "standard", "business"} THEN PRO
    ELSE IF framework_value \in FREE_FRAMEWORKS THEN FREE
    ELSE IF g.tier \in {"free", "starter", "trial"} THEN FREE
    ELSE IF framework_value \in {"pdpa_quick_scan", "pdpa_basic", "pdpa_pro"} THEN PRO
    ELSE FREE

blocked_statuses ==
    {"blocked", "denied", "suspended", "past_due", "canceled", "cancelled",
     "limit_reached", "disabled"}

Raised(exc) == [raised |-> TRUE, exc |-> exc]

\* the dict enforce_tier returns on a denied request
Denied(tier, reason) ==
    [raised |-> FALSE, allowed |-> FALSE, tier |-> tier, paid |-> FALSE,
     reason |-> reason, features |-> EmptyDict]

\* a derivation that grants the artifact on tier alone
features_of_unpaid_pdf(tier, paid) ==
    LET ai_full == tier \in {PRO, ENTERPRISE} /\ paid IN
    [ai_mode |-> IF ai_full THEN "full" ELSE "light",
     ai_full |-> ai_full,
     pdf |-> tier \in {PRO, ENTERPRISE},
     blockchain |-> paid /\ tier \in {PRO, ENTERPRISE},
     monitoring |-> tier = ENTERPRISE,
     dashboard |-> tier = ENTERPRISE,
     multi_vendor |-> tier = ENTERPRISE]

\* enforce_tier lines 99-111
features_of(tier, paid) ==
    LET allow_blockchain == paid /\ tier \in {PRO, ENTERPRISE}
        allow_pdf == paid /\ tier \in {PRO, ENTERPRISE}
        ai_full == tier \in {PRO, ENTERPRISE} /\ paid
    IN
    [ai_mode |-> IF ai_full THEN "full" ELSE "light",
     ai_full |-> ai_full,
     pdf |-> allow_pdf,
     blockchain |-> allow_blockchain,
     monitoring |-> tier = ENTERPRISE,
     dashboard |-> tier = ENTERPRISE,
     multi_vendor |-> tier = ENTERPRISE]

enforce_tier(g, data, framework) ==
    LET status_value == _normalize(FirstTruthy(
            <<Get(data, "access_status", None),
              Get(data, "subscription_status", None),
              Get(data, "plan_status", None)>>))
        tier == resolve_tier(g, data, framework)
        subscription_status == _normalize(Get(data, "subscription_status", None))
        paid == Get(data, "payment_confirmed", FALSE)
                  \/ subscription_status \in {"active", "trialing"}
    IN
    IF status_value \in blocked_statuses
    THEN IF tier = NameError THEN Raised(NameError)
         ELSE Denied(tier, "status:" \o status_value)
    ELSE IF Get(data, "free_limit_reached", FALSE) \/ Get(data, "plan_limit_reached", FALSE)
    THEN IF tier = NameError THEN Raised(NameError)
         ELSE Denied(tier, "limit_reached")
    ELSE IF tier = NameError THEN Raised(NameError)
    ELSE [raised |-> FALSE, allowed |-> TRUE, tier |-> tier, paid |-> paid,
          reason |-> None, features |-> features_of(tier, paid)]

\* policy.get("features", {}).get(k): absent keys are falsy
Feature(policy, k) == Get(policy.features, k, FALSE)

\* ---- inputs of the stand-alone policy check
AliasValues == {None, "active", "SUSPENDED", "past_due", "trialing"}
Frameworks == {"pdpa_free_scan", "pdpa_pro", "gdpr"}
TierNames == {Unbound, "", "enterprise", "pro", "free"}
ProductNames == {Unbound, "", "pdpa_basic"}
\* the module as shipped binds neither name
ShippedGlobals == [tier |-> Unbound, product_type |-> Unbound]
AllGlobals == [tier : TierNames, product_type : ProductNames]

\* a dict built from optional entries: None means the key is absent
DictOf(pairs) ==
    LET present == {i \in 1..Len(pairs) : pairs[i][2] # None} IN
    [k \in {pairs[i][1] : i \in present} |->
        LET i == CHOOSE j \in present : pairs[j][1] = k IN pairs[i][2]]

PolicyInputs ==
    {[data |-> DictOf(<<<<"access_status", a>>, <<"subscription_status", s>>,
                        <<"plan_status", p>>>>)
                @@ (IF l THEN [free_limit_reached |-> TRUE] ELSE EmptyDict)
                @@ (IF c THEN [payment_confirmed |-> TRUE] ELSE EmptyDict),
      framework |-> f] :
        a \in AliasValues, s \in AliasValues, p \in AliasValues,
        l \in BOOLEAN, c \in BOOLEAN, f \in Frameworks}

\* inputs that carry the tier hint and the product key in assessment_data
TierHints == {None, "enterprise", "pro", "free"}
ProductKeys == {None, "pdpa_basic"}
TierInputs ==
    {[data |-> DictOf(<<<<"tier", t>>, <<"product_type", k>>>>), framework |-> f] :
        t \in TierHints, k \in ProductKeys, f \in Frameworks}

\* check_access (app/services/access_control.py): the same denylist over the
\* first truthy alias, without a tier
check_access(data) ==
    LET status == _normalize(FirstTruthy(
            <<Get(data, "access_status", None),
              Get(data, "subscription_status", None),
              Get(data, "plan_status", None)>>))
        plan == _normalize(FirstTruthy(<<Get(data, "plan", None), Get(data, "tier", None)>>))
        subscription_status == _normalize(Get(data, "subscription_status", None))
        paid == \/ Get(data, "payment_confirmed", FALSE)
                \/ plan \in {"pro", "paid", "standard", "enterprise", "business"}
                \/ subscription_status \in {"active", "trialing"}
    IN
    IF status \in blocked_statuses
    THEN [allowed |-> FALSE, paid |-> FALSE, reason |-> "status:" \o status]
    ELSE IF Get(data, "free_limit_reached", FALSE) \/ Get(data, "plan_limit_reached", FALSE)
    THEN [allowed |-> FALSE, paid |-> FALSE, reason |-> "limit_reached"]
    ELSE [allowed |-> TRUE, paid |-> paid, reason |-> None]

\* no policy computed yet
Pending == [pending |-> TRUE]

\* enforce_tier applied to the input
Resolve ==
    /\ polResult = Pending
    /\ polResult' = enforce_tier(enfGlobals, polInput.data, polInput.framework)
    /\ UNCHANGED <<polInput, ledgerVars, anchorCalls, hook, batchCall, envVars, engineVars, celery, now, reportVars, flowVars>>

(***************************************************************************)
(* The Report row, EvidenceHasher and AuditChain                           *)
(***************************************************************************)
MAX_PROCESSING_ATTEMPTS == 3
PROCESSING_RETRY_WINDOW_SECONDS == 600
max_attempts == 3

MaxRuns == 2          \* workflow runs per behaviour
MaxPolls == 2         \* polling requests per behaviour
MaxRacePolls == 1     \* polling requests while runs overlap
MaxTime == 600        \* the clock stops here
TickSeconds == 600    \* one clock step

RunIds == 1..MaxRuns
Terminal == {"blocked", "failed", "completed"}

\* The canonical evidence payload of Step 2 (json.dumps(..., sort_keys=True)).
EvidencePayload(rep, narrative) ==
    [report_id |-> "r1",
     framework |-> rep.framework,
     company |-> "acme",
     assessment_data |-> rep.ad,
     ai_narrative |-> narrative,
     timestamp |-> rep.created_at]

\* hashlib.sha256(...).hexdigest(): one digest per distinct payload; table
\* lists the payloads hashed so far
Sha256(table, payload) ==
    LET seen == {i \in 1..Len(table) : table[i] = payload} IN
    "sha256:" \o ToString(IF seen = {} THEN Len(table) + 1 ELSE CHOOSE i \in seen : TRUE)

Hashed(table, payload) ==
    IF \E i \in 1..Len(table) : table[i] = payload THEN table
    ELSE Append(table, payload)

\* log_dependency_event: the updates it returns for assessment_data
log_dependency_event(ad, event_type, delivery) ==
    LET event == [event |-> event_type, delivery |-> delivery, timestamp |-> now] IN
    [dependency_events |-> Append(Get(ad, "dependency_events", <<>>), event),
     last_dependency_event |-> event]

\* register_verification: the updates it returns
register_verification(ad, evidence_hash, tx_hash) ==
    LET payload == [verify_id |-> evidence_hash, tx_hash |-> tx_hash,
                    format |-> "BOOPPA-PROOF-SG", schema_version |-> "1.0",
                    registered_at |-> now] IN
    [verification_registry |->
         Get(ad, "verification_registry", {}) \cup {evidence_hash},
     verify_id |-> evidence_hash,
     verification_payload |-> payload]

\* append_audit_event, first half: the most recent committed event's hash
\* (order_by created_at desc, first), or the genesis sentinel
PreviousHash(evs) ==
    IF evs = {} THEN "GENESIS"
    ELSE (CHOOSE e \in evs : \A f \in evs : f.created_at <= e.created_at).hash

\* append_audit_event, second half: the event object it constructs
AuditChainEvent(prev_hash, hash_value, created_at) ==
    [action |-> "report_hash_created", hash_prev |-> prev_hash,
     hash |-> hash_value, created_at |-> created_at]

\* the report's events ordered by creation time
RECURSIVE Ordered(_)
Ordered(evs) ==
    IF evs = {} THEN <<>>
    ELSE LET e == CHOOSE x \in evs : \A y \in evs : x.created_at <= y.created_at
         IN <<e>> \o Ordered(evs \ {e})

(***************************************************************************)
(* ReportWorkflow: process_report_workflow, one action per stage.  A run   *)
(* holds its own database session: after each commit the session expires   *)
(* the row, and the next read of report.assessment_data loads it again;    *)
(* between a read and the commit that follows it the run works on the copy *)
(* it loaded.                                                              *)
(***************************************************************************)
IdleRun ==
    [pc |-> "idle", origin |-> None, policy |-> Raised(None), narrative |-> None,
     hash |-> None, tx |-> None, attempt |-> 0, sleeps |-> <<>>,
     event |-> Nothing, loaded |-> EmptyDict, work |-> {}, exc |-> None,
     result |-> None, uploads |-> 0]

\* what a run's exc holds when a collaborator (narrative service, ledger,
\* renderer, artifact store, notifier) raised
CollaboratorErrors == {"NarrativeFailed", "AnchorFailed", "RenderFailed", "StoreFailed",
                       "NotifierFailed"}

Live(r) == runs[r].pc \notin {"idle", "done", "raised"}
LiveRuns == {r \in RunIds : Live(r)}

\* _set_assessment_values on the copy the session holds: a new dict is built
\* from the loaded one and assigned, so the commit that follows writes it
_set_assessment_values(assessment, updates) == Merge(assessment, updates)

\* models.py line 29 declares assessment_data as Column(JSON), with no
\* mutation tracking, and db.py makes the session with the defaults: at commit
\* the unit of work writes an attribute whose assigned value differs from the
\* value it loaded, and expires the row.  A handler that takes the loaded dict
\* (`assessment = report.assessment_data or {}`), sets keys in it and assigns
\* it back has assigned the loaded object itself: the two compare equal and
\* the column is not written.  Only `or {}` on an empty dict yields a new
\* object, which is written.  The result is the value the row holds after
\* the commit.
AssignedInPlace(stored, updates) ==
    IF DOMAIN stored = {} THEN Merge(stored, updates) ELSE stored

\* reports.py line 434 takes the loaded dict whenever it is a dict, empty or
\* not, sets the bookkeeping keys in it and assigns it back
AssignedSame(stored, updates) == stored

At(r, pc) == runs[r].pc = pc
Goto(r, pc) == runs' = [runs EXCEPT ![r].pc = pc]
Step(r, rec) == runs' = [runs EXCEPT ![r] = rec]
Did(r, what) == runs[r].work \cup {what}

OtherUnchanged == UNCHANGED <<ledgerVars, anchorCalls, hook, batchCall, policyVars, envVars, engineVars, celery, now,
                              exists, events, stamp, shaTable, queued, poll,
                              responses, lastResponse, triggers>>

\* for the stages that touch the ledger or the digest table as well
RestUnchanged == UNCHANGED <<anchorCalls, hook, batchCall, policyVars, envVars, engineVars, celery, now, exists,
                             events, stamp, queued, poll, responses,
                             lastResponse, triggers>>

\* a policy check that never stops the run
DeniedStops_never(policy) == FALSE

\* line 303: if not policy.get("allowed")
DeniedStops(policy) == ~policy.allowed

\* lines 271-336: load the row, resolve the policy, record it; a denied
\* policy persists blocked and returns
WorkflowPolicy(r) ==
    /\ At(r, "start")
    /\ LET ad == report.ad
           policy == enforce_tier(enfGlobals, ad, report.framework)
       IN
       IF policy.raised
       THEN /\ Step(r, [runs[r] EXCEPT !.pc = "except", !.exc = policy.exc])
            /\ UNCHANGED report
       ELSE LET checked == _set_assessment_values(ad,
                    [access_checked_at |-> now,
                     access_allowed |-> policy.allowed,
                     access_paid |-> policy.paid,
                     access_reason |-> policy.reason,
                     tier |-> policy.tier,
                     tier_features |-> policy.features])
                blocked == _set_assessment_values(checked,
                    [access_blocked |-> TRUE, access_blocked_at |-> now])
                logged == _set_assessment_values(blocked,
                    log_dependency_event(blocked, "access_blocked", None))
            IN
            IF DeniedStops(policy)
            THEN /\ report' = [report EXCEPT !.status = "blocked", !.ad = logged]
                 /\ Step(r, [runs[r] EXCEPT !.pc = "done", !.policy = policy,
                                            !.result = "blocked"])
            ELSE /\ report' = [report EXCEPT !.ad = checked]
                 /\ Step(r, [runs[r] EXCEPT !.pc = "scan", !.policy = policy])
    /\ OtherUnchanged

\* lines 338-381: the three site scans (_resolve_website_url,
\* _detect_cookie_banner, _scan_site_metadata); each reads the URL from the
\* row, awaits the scan, and merges its result into the copy it read
SiteScanCall(r) ==
    /\ At(r, "scan")
    /\ Step(r, [runs[r] EXCEPT !.pc = "scan_commit", !.loaded = report.ad,
                               !.work = Did(r, "scan")])
    /\ UNCHANGED report
    /\ OtherUnchanged

\* lines 344-358, 370-372, 382-384: _set_assessment_values and commit
SiteScanCommit(r) ==
    /\ At(r, "scan_commit")
    /\ report' = [report EXCEPT !.ad = _set_assessment_values(runs[r].loaded,
                     [url |-> "https://site", resolved_url |-> "https://site",
                      uses_https |-> TRUE, http_status |-> 200,
                      consent_mechanism |-> [has_cookie_banner |-> FALSE],
                      security_headers |-> [hsts |-> TRUE],
                      privacy_policy |-> [found |-> FALSE],
                      collects_nric |-> FALSE])]
    /\ Goto(r, "narrative")
    /\ OtherUnchanged

\* lines 388-462: the full or the light NarrativeGenerator on the row's
\* assessment_data; its output is attached and ai_narrative set.  An error
\* of the generator is not caught here.
Narrative(r, generatorUp) ==
    /\ At(r, "narrative")
    /\ LET full == Feature(runs[r].policy, "ai_full")
           narrative == IF full THEN "executive summary" ELSE "light summary"
           updates == IF full
                      THEN [booppa_report |-> "structured report",
                            booppa_report_saved_at |-> now]
                      ELSE [light_ai_report |-> "light report",
                            light_ai_saved_at |-> now]
           did == Did(r, IF full THEN "narrative_full" ELSE "narrative_light")
       IN
       IF generatorUp
       THEN /\ report' = [report EXCEPT
                   !.ad = _set_assessment_values(report.ad, updates),
                   !.ai_narrative = narrative]
            /\ Step(r, [runs[r] EXCEPT !.pc = "hash", !.narrative = narrative,
                                       !.work = did])
       ELSE /\ UNCHANGED report
            /\ Step(r, [runs[r] EXCEPT !.pc = "except", !.exc = "NarrativeFailed",
                                       !.work = did])
    /\ OtherUnchanged

\* lines 464-478: Step 2, the evidence digest over the row as it is now
EvidenceHash(r) ==
    /\ At(r, "hash")
    /\ LET payload == EvidencePayload(report, runs[r].narrative)
           evidence_hash == Sha256(shaTable, payload)
       IN
       /\ shaTable' = Hashed(shaTable, payload)
       /\ report' = [report EXCEPT !.audit_hash = evidence_hash]
       /\ Step(r, [runs[r] EXCEPT !.pc = "append", !.hash = evidence_hash,
                                  !.work = Did(r, "digest")])
    /\ UNCHANGED ledgerVars
    /\ RestUnchanged

\* audit_chain.py lines 17-33: query the previous event, construct the new one
AppendAuditQuery(r) ==
    /\ At(r, "append")
    /\ stamp' = stamp + 1
    /\ Step(r, [runs[r] EXCEPT !.pc = "append_commit",
           !.event = AuditChainEvent(PreviousHash(events), runs[r].hash, stamp + 1)])
    /\ UNCHANGED <<report, ledgerVars, anchorCalls, hook, batchCall, policyVars, envVars, engineVars, celery, now,
                   exists, events, shaTable, queued, poll, responses,
                   lastResponse, triggers>>

\* audit_chain.py line 34 and tasks.py line 489: db.add(event); db.commit()
AppendAuditCommit(r) ==
    /\ At(r, "append_commit")
    /\ events' = events \cup {runs[r].event}
    /\ Goto(r, "anchor")
    /\ UNCHANGED <<report, ledgerVars, anchorCalls, hook, batchCall, policyVars, envVars, engineVars, celery, now,
                   exists, stamp, shaTable, queued, poll, responses,
                   lastResponse, triggers>>

\* lines 494-537: Step 3.  The anchoring call is made only for a paid policy
\* with the blockchain feature and is not wrapped in a try: an error it
\* raises leaves the stage through the workflow's except handler.
AnchorStage(r, statusUp, sendUp) ==
    /\ At(r, "anchor")
    /\ LET policy == runs[r].policy
           payment_confirmed == policy.paid
           wanted == Feature(policy, "blockchain") /\ payment_confirmed
           out == IF wanted
                  THEN anchor_evidence(chainAnchored, Len(txs), runs[r].hash,
                                       statusUp, config.key_set, sendUp)
                  ELSE [raised |-> FALSE, result |-> None, sent |-> FALSE]
           tx_hash == out.result
           proof == IF Feature(policy, "pdf") /\ payment_confirmed
                    THEN _set_assessment_values(report.ad,
                             [verify_url |-> runs[r].hash,
                              proof_header |-> "BOOPPA-PROOF-SG",
                              schema_version |-> "1.0"])
                    ELSE report.ad
           registered == IF Feature(policy, "pdf") /\ payment_confirmed
                         THEN _set_assessment_values(proof,
                                  register_verification(proof, runs[r].hash, tx_hash))
                         ELSE proof
       IN
       IF out.raised
       THEN /\ Step(r, [runs[r] EXCEPT !.pc = "except", !.exc = "AnchorFailed",
                                       !.work = Did(r, "anchor")])
            /\ UNCHANGED <<report, ledgerVars>>
       ELSE /\ LedgerAfter(out, runs[r].hash)
            /\ report' = [report EXCEPT !.tx_hash = tx_hash, !.ad = registered]
            /\ Step(r, [runs[r] EXCEPT !.pc = "screenshot", !.tx = tx_hash,
                   !.work = IF wanted THEN Did(r, "anchor") ELSE runs[r].work])
    /\ UNCHANGED shaTable
    /\ RestUnchanged

\* lines 540-555: capture a screenshot unless the row already has one
Screenshot(r) ==
    /\ At(r, "screenshot")
    /\ IF Has(report.ad, "site_screenshot")
       THEN /\ UNCHANGED report
            /\ Goto(r, "finalize")
       ELSE /\ report' = [report EXCEPT !.ad = _set_assessment_values(report.ad,
                              [site_screenshot |-> "png"])]
            /\ Step(r, [runs[r] EXCEPT !.pc = "finalize",
                                       !.work = Did(r, "screenshot")])
    /\ OtherUnchanged

\* lines 604-747: without the pdf feature the run persists completed and goes
\* on to notify; an on-page-only report is completed here; with
\* SKIP_PDF_GENERATION the run persists completed without an artifact and
\* goes on to notify; lines 749-803 otherwise: the PDF needs a screenshot,
\* captured again.  The first two branches are the body of the try of lines
\* 603-687: a run whose exception that try swallowed (fell) is past them.
Finalize(r) ==
    /\ At(r, "finalize")
    /\ LET ad == report.ad
           fell == "fell" \in runs[r].work
           on_page_only == Get(ad, "on_page_only", FALSE)
           no_pdf == _set_assessment_values(ad,
                        [pdf_generated |-> FALSE, pdf_reason |-> "tier_restriction"])
           on_page == _set_assessment_values(ad, [on_page_ready |-> TRUE])
           skipped == _set_assessment_values(ad,
                        [pdf_generated |-> FALSE, s3_uploaded |-> FALSE])
       IN
       IF ~fell /\ ~Feature(runs[r].policy, "pdf")
       THEN /\ report' = [report EXCEPT !.status = "completed", !.ad = no_pdf]
            /\ Step(r, [runs[r] EXCEPT !.pc = "notify", !.loaded = no_pdf])
       ELSE IF ~fell /\ on_page_only
       THEN /\ report' = [report EXCEPT !.status = "completed",
                   !.ad = _set_assessment_values(on_page,
                            log_dependency_event(on_page, "report_completed", "on_page"))]
            /\ Step(r, [runs[r] EXCEPT !.pc = "done", !.result = "completed"])
       ELSE IF config.skip_pdf
       THEN /\ report' = [report EXCEPT !.s3_url = None, !.status = "completed",
                                        !.ad = skipped]
            /\ Step(r, [runs[r] EXCEPT !.pc = "notify", !.loaded = skipped])
       ELSE /\ UNCHANGED report
            /\ Step(r, [runs[r] EXCEPT !.pc = "render", !.work = Did(r, "screenshot")])
    /\ OtherUnchanged

\* lines 804-875: store the screenshot, render the PDF; a renderer error is
\* re-raised
Render(r, rendererUp) ==
    /\ At(r, "render")
    /\ LET shot == _set_assessment_values(report.ad, [site_screenshot |-> "png"])
           rendered == _set_assessment_values(shot,
                          [pdf_generated |-> TRUE, pdf_generated_at |-> now])
       IN
       IF rendererUp
       THEN /\ report' = [report EXCEPT !.ad = rendered]
            /\ Step(r, [runs[r] EXCEPT !.pc = "upload", !.work = Did(r, "render")])
       ELSE /\ report' = [report EXCEPT !.ad = shot]
            /\ Step(r, [runs[r] EXCEPT !.pc = "except", !.exc = "RenderFailed",
                                       !.work = Did(r, "render")])
    /\ OtherUnchanged

\* asyncio.sleep(min(10, 2**attempt))
Backoff(attempt) == IF 2 ^ attempt < 10 THEN 2 ^ attempt ELSE 10

\* line 904: if attempt == max_attempts
UploadExhausted(attempt) == attempt = max_attempts

\* lines 882-907: one pass of the upload loop
UploadAttempt(r, storeUp) ==
    /\ At(r, "upload")
    /\ LET attempt == runs[r].attempt + 1
           stored == _set_assessment_values(report.ad,
                        [s3_uploaded |-> TRUE, s3_uploaded_at |-> now])
       IN
       IF storeUp
       THEN /\ report' = [report EXCEPT !.s3_url = "s3://reports/r1.pdf",
                                        !.status = "completed", !.ad = stored]
            /\ Step(r, [runs[r] EXCEPT !.pc = "notify", !.attempt = attempt,
                                       !.loaded = stored, !.work = Did(r, "store")])
       ELSE /\ UNCHANGED report
            /\ IF UploadExhausted(attempt)
               THEN Step(r, [runs[r] EXCEPT !.pc = "except", !.attempt = attempt,
                                !.exc = "StoreFailed", !.work = Did(r, "store")])
               ELSE Step(r, [runs[r] EXCEPT !.attempt = attempt,
                                !.sleeps = Append(@, Backoff(attempt)),
                                !.work = Did(r, "store")])
    /\ OtherUnchanged

\* line 621 is inside the try of lines 603-687; lines 709 and 911 are inside
\* no try but the workflow's outer one
ConstructorGuarded(run) == ~Feature(run.policy, "pdf") /\ "fell" \notin run.work

\* lines 620-659, 708-747, 909-958: EmailService() is constructed, then the
\* notification e-mail is sent inside a try of its own (a missing address or
\* a failed send is logged), then the report_completed dependency event is
\* merged into the copy read before the e-mail was sent.  constructs and
\* sends are the outcomes of the constructor and of the send.
Notify(r, constructs, sends) ==
    /\ At(r, "notify")
    /\ LET delivery == IF "store" \in runs[r].work THEN "pdf" ELSE "no_pdf"
           to_email == Get(runs[r].loaded, "contact_email",
                           Get(runs[r].loaded, "customer_email", None))
           sent == sends /\ to_email # None
       IN
       IF ~constructs
       THEN /\ UNCHANGED report
            /\ IF ConstructorGuarded(runs[r])
               THEN Step(r, [runs[r] EXCEPT !.pc = "finalize",
                                !.work = Did(r, "fell") \cup {"notifier_failed"}])
               ELSE Step(r, [runs[r] EXCEPT !.pc = "except", !.exc = "NotifierFailed",
                                !.work = Did(r, "notifier_failed")])
       ELSE /\ report' = [report EXCEPT !.ad = _set_assessment_values(runs[r].loaded,
                     log_dependency_event(runs[r].loaded, "report_completed", delivery))]
            /\ Step(r, [runs[r] EXCEPT !.pc = "done", !.result = "completed",
                           !.work = Did(r, IF sent THEN "email" ELSE "notifier_failed")])
    /\ OtherUnchanged

\* a handler that persists a status outside the column's five values
FailedStatus_error(status) == "error"

\* line 972: report.status = "failed"
FailedStatus(status) == "failed"

\* lines 960-978: roll back, load the row again, set the error keys in the
\* loaded dict, persist failed, re-raise
ExceptHandler(r) ==
    /\ At(r, "except")
    /\ report' = [report EXCEPT
           !.status = FailedStatus(@),
           !.ad = AssignedInPlace(@, [last_processing_error |-> runs[r].exc,
                                      last_processing_error_at |-> now])]
    /\ Step(r, [runs[r] EXCEPT !.pc = "raised", !.result = "failed"])
    /\ OtherUnchanged

\* reports.py lines 209-226: _run_report_workflow_sync catches what the
\* workflow re-raised and persists failed once more, in a session of its own
RunSyncExcept(r) ==
    /\ At(r, "raised")
    /\ runs[r].origin = "task"
    /\ report' = [report EXCEPT
           !.status = "failed",
           !.ad = AssignedInPlace(@, [last_processing_error |-> runs[r].exc])]
    /\ Goto(r, "done")
    /\ OtherUnchanged

(***************************************************************************)
(* Payment webhook: app/api/stripe_webhook.py                              *)
(***************************************************************************)
\* no checkout.session.completed event has been delivered
NoHook == [pc |-> "idle", policy |-> Raised(None), ad |-> EmptyDict]

HookUnchanged == UNCHANGED <<anchorCalls, batchCall, policyVars, envVars, engineVars, celery,
                             now, exists, events, stamp, shaTable, flowVars>>

\* lines 66-108: checkout.session.completed for the report.  The payment keys
\* are set in the loaded dict, the policy is resolved on it (outside any try)
\* and the dict assigned back; then, for a paid policy with the blockchain
\* feature, the row's audit_hash is anchored.  A null audit_hash makes
\* _hash_to_bytes32 raise, and like any anchoring error that is logged and
\* tx_hash left as it is.
StripeWebhook(product_type, statusUp, sendUp) ==
    /\ exists
    /\ hook.pc = "idle"
    /\ LET paid_keys == [payment_confirmed |-> TRUE]
               @@ (IF product_type # None THEN [product_type |-> product_type]
                   ELSE EmptyDict)
           ad == Merge(report.ad, paid_keys)
           policy == enforce_tier(enfGlobals, ad, report.framework)
       IN
       IF policy.raised
       THEN /\ hook' = [hook EXCEPT !.pc = "raised"]
            /\ UNCHANGED <<report, ledgerVars>>
       ELSE LET updates == paid_keys @@ [tier |-> policy.tier,
                                         tier_features |-> policy.features]
                evidence_hash == report.audit_hash
                wanted == Feature(policy, "blockchain") /\ policy.paid
                out == IF wanted /\ evidence_hash # None
                       THEN anchor_evidence(chainAnchored, Len(txs), evidence_hash,
                                            statusUp, config.key_set, sendUp)
                       ELSE [raised |-> wanted, result |-> None, sent |-> FALSE]
            IN
            /\ LedgerAfter(out, evidence_hash)
            /\ report' = [report EXCEPT
                   !.ad = AssignedInPlace(@, updates),
                   !.tx_hash = IF wanted /\ ~out.raised THEN out.result ELSE @]
            /\ hook' = [pc |-> "regen", policy |-> policy, ad |-> Merge(ad, updates)]
    /\ HookUnchanged

\* lines 110-231: for a paid policy with the pdf feature the proof keys are
\* set in the dict and it is assigned again (the first commit expired the
\* attribute, so this assignment is written), the PDF rendered and uploaded;
\* an upload that succeeds persists s3_url and status completed.  Rendering
\* and upload errors are logged; EmailService() is constructed outside the
\* try around the send.
WebhookRegenerate(renderUp, uploadUp, constructs) ==
    /\ hook.pc = "regen"
    /\ LET wanted == Feature(hook.policy, "pdf") /\ hook.policy.paid
           ad == IF wanted
                 THEN Merge(hook.ad, [verify_url |-> report.audit_hash,
                                      proof_header |-> "BOOPPA-PROOF-SG",
                                      schema_version |-> "1.0"])
                 ELSE hook.ad
           uploaded == wanted /\ renderUp /\ uploadUp
       IN
       /\ report' = [report EXCEPT
              !.ad = IF wanted THEN ad ELSE @,
              !.s3_url = IF uploaded THEN "s3://reports/r1.pdf" ELSE @,
              !.status = IF uploaded THEN "completed" ELSE @]
       /\ hook' = [hook EXCEPT !.pc = IF constructs THEN "done" ELSE "raised", !.ad = ad]
    /\ UNCHANGED ledgerVars
    /\ HookUnchanged

(***************************************************************************)
(* Intake and the polling endpoint: app/api/reports.py                     *)
(***************************************************************************)
NoReport ==
    [status |-> "pending", ad |-> EmptyDict, audit_hash |-> None, tx_hash |-> None,
     s3_url |-> None, ai_narrative |-> None, framework |-> None, created_at |-> 0]

NoPoll == [active |-> FALSE, run |-> 0, limited |-> FALSE, triggered |-> FALSE]
NoResponse == [code |-> 0, limited |-> FALSE, triggered |-> FALSE, forced |-> FALSE]

FreeSlots == {r \in RunIds : runs[r].pc = "idle"}
FirstFree == CHOOSE r \in FreeSlots : \A q \in FreeSlots : r <= q
NewRun(origin) == [IdleRun EXCEPT !.pc = "start", !.origin = origin]

\* lines 124-134 / 175-185: the assessment_data the intake stores; the
\* request's own assessment_data is any dict, here with or without a status
\* alias, a payment flag with the product key bought, and attempt bookkeeping
IntakeAssessment(framework, access_status, paid, attempts) ==
    [url |-> "site", uses_https |-> FALSE, contact_email |-> "a@b.c"]
      @@ (IF framework \in {"pdpa_free_scan"}
          THEN [on_page_only |-> TRUE, tier |-> "free"] ELSE EmptyDict)
      @@ (IF access_status # None THEN [access_status |-> access_status] ELSE EmptyDict)
      @@ (IF paid THEN [payment_confirmed |-> TRUE, product_type |-> "pdpa_pro"]
          ELSE EmptyDict)
      @@ (IF attempts > 0 THEN [processing_attempts |-> attempts] ELSE EmptyDict)

IntakeUnchanged == UNCHANGED <<ledgerVars, anchorCalls, hook, batchCall, policyVars, envVars, engineVars, celery, now,
                               events, stamp, shaTable, runs, poll, responses,
                               lastResponse, triggers>>

\* create_report: status processing, the workflow added as a background task
CreateReport(framework, access_status, paid, attempts) ==
    /\ ~exists
    /\ exists' = TRUE
    /\ report' = [NoReport EXCEPT !.status = "processing", !.framework = framework,
                      !.created_at = now,
                      !.ad = IntakeAssessment(framework, access_status, paid, attempts)]
    /\ queued' = queued + 1
    /\ IntakeUnchanged

\* create_report_public: status pending, nothing started
CreateReportPublic(framework, access_status, paid, attempts) ==
    /\ ~exists
    /\ exists' = TRUE
    /\ report' = [NoReport EXCEPT !.status = "pending", !.framework = framework,
                      !.created_at = now,
                      !.ad = IntakeAssessment(framework, access_status, paid, attempts)]
    /\ UNCHANGED queued
    /\ IntakeUnchanged

\* a background task starts: _run_report_workflow_sync calls the workflow
StartTask ==
    /\ queued > 0
    /\ FreeSlots # {}
    /\ queued' = queued - 1
    /\ runs' = [runs EXCEPT ![FirstFree] = NewRun("task")]
    /\ UNCHANGED <<ledgerVars, anchorCalls, hook, batchCall, policyVars, envVars, engineVars, celery, now, reportVars,
                   poll, responses, lastResponse, triggers>>

\* lines 447-457: the two checks that raise HTTPException(429)
RateLimited(attempts, last_attempt, has_last, t) ==
    \/ attempts >= MAX_PROCESSING_ATTEMPTS
    \/ has_last /\ t - last_attempt < PROCESSING_RETRY_WINDOW_SECONDS

\* lines 289-515 of get_report_by_session, up to the forced run: payment
\* update, policy, readiness, the re-processing guard, the trigger.  The
\* HTTPException of the guard is raised inside the try whose
\* `except Exception` (line 486) logs it, so the handler goes on to `if force`.
PollRequest(session_paid, force, debug) ==
    /\ exists
    /\ ~poll.active
    /\ force => FreeSlots # {}
    /\ queued < MaxRuns
    /\ LET paidAd == IF session_paid /\ ~Get(report.ad, "payment_confirmed", FALSE)
                     THEN AssignedInPlace(report.ad,
                              [payment_confirmed |-> TRUE,
                               payment_confirmed_at |-> now,
                               payment_source |-> "stripe_session"])
                     ELSE report.ad
           structured_report == Has(paidAd, "booppa_report")
                                  \/ report.ai_narrative # None
           policy == enforce_tier(enfGlobals, paidAd, report.framework)
       IN
       IF policy.raised
       THEN \* line 369 is outside every try: the request ends with a 500
            /\ report' = [report EXCEPT !.ad = paidAd]
            /\ lastResponse' = [NoResponse EXCEPT !.code = 500]
            /\ responses' = responses + 1
            /\ UNCHANGED <<runs, queued, poll, triggers>>
       ELSE
       LET override == session_paid /\ policy.tier \in {PRO, ENTERPRISE}
           features == IF override
                       THEN Merge(policy.features,
                                [ai_mode |-> "full", ai_full |-> TRUE,
                                 pdf |-> TRUE, blockchain |-> TRUE])
                       ELSE policy.features
           tierAd == IF override
                     THEN AssignedInPlace(paidAd,
                              [tier |-> policy.tier, tier_features |-> features])
                     ELSE paidAd
           needs_paid_output ==
               /\ policy.paid \/ session_paid
               /\ Get(features, "ai_full", FALSE) \/ Get(features, "pdf", FALSE)
               /\ \/ DOMAIN tierAd = {}
                  \/ ~Has(tierAd, "booppa_report_saved_at")
                  \/ (Has(tierAd, "pdf_generated") /\ tierAd["pdf_generated"] = FALSE)
           ready == ~needs_paid_output /\ (report.s3_url # None \/ structured_report)
           attempts == Get(tierAd, "processing_attempts", 0)
           has_last == Has(tierAd, "last_processing_attempt_at")
           last_attempt == Get(tierAd, "last_processing_attempt_at", 0)
           limited == RateLimited(attempts, last_attempt, has_last, now)
           booked == AssignedSame(tierAd, [processing_attempts |-> attempts + 1,
                                           last_processing_attempt_at |-> now])
           after == IF limited THEN tierAd ELSE booked
           entry(kind) ==
               [at |-> now, kind |-> kind, limited |-> limited,
                booked |-> /\ Get(after, "processing_attempts", 0) = attempts + 1
                           /\ Has(after, "last_processing_attempt_at")
                           /\ after["last_processing_attempt_at"] = now]
       IN
       IF ready
       THEN /\ report' = [report EXCEPT !.ad = tierAd]
            /\ lastResponse' = [NoResponse EXCEPT !.code = 200]
            /\ responses' = responses + 1
            /\ UNCHANGED <<runs, queued, poll, triggers>>
       ELSE
            /\ report' = [report EXCEPT
                   !.ad = after,
                   !.status = IF limited THEN @ ELSE "processing"]
            /\ triggers' = (IF limited THEN triggers ELSE Append(triggers, entry("task")))
                             \o (IF force THEN <<entry("force")>> ELSE <<>>)
            /\ IF force
               THEN /\ runs' = [runs EXCEPT ![FirstFree] = NewRun("force")]
                    /\ poll' = [active |-> TRUE, run |-> FirstFree,
                                limited |-> limited, triggered |-> ~limited]
                    /\ UNCHANGED <<queued, responses, lastResponse>>
               ELSE /\ queued' = queued + (IF limited THEN 0 ELSE 1)
                    /\ lastResponse' = [code |-> 404, limited |-> limited,
                                        triggered |-> ~limited, forced |-> FALSE]
                    /\ responses' = responses + 1
                    /\ UNCHANGED <<runs, poll>>
    /\ UNCHANGED <<ledgerVars, anchorCalls, hook, batchCall, policyVars, envVars, engineVars, celery, now, exists,
                   events, stamp, shaTable>>

\* lines 493-532: the forced run has returned or raised (line 512 logs what
\* it raised); the row is refreshed and the response built; the background
\* task added before runs once the response is out
PollFinish ==
    /\ poll.active
    /\ runs[poll.run].pc \in {"done", "raised"}
    /\ LET returned == runs[poll.run].pc = "done"
           has_output == report.s3_url # None \/ Has(report.ad, "booppa_report")
       IN
       lastResponse' = [code |-> IF returned /\ has_output THEN 200 ELSE 404,
                        limited |-> poll.limited, triggered |-> poll.triggered,
                        forced |-> TRUE]
    /\ responses' = responses + 1
    /\ queued' = queued + (IF poll.triggered THEN 1 ELSE 0)
    /\ poll' = NoPoll
    /\ runs' = [runs EXCEPT ![poll.run].pc = "done"]
    /\ UNCHANGED <<ledgerVars, anchorCalls, hook, batchCall, policyVars, envVars, engineVars, celery, now, reportVars,
                   triggers>>

\* time passes
Tick ==
    /\ now + TickSeconds <= MaxTime
    /\ now' = now + TickSeconds
    /\ UNCHANGED <<ledgerVars, anchorCalls, hook, batchCall, policyVars, envVars, engineVars, celery, reportVars, flowVars>>

(***************************************************************************)
(* Monitor engine: app/orchestrator/engine.py with app/core/cache/cache.py *)
(* and app/core/blockchain/notary.py.  run_many creates one asyncio task   *)
(* per URL; a task runs without interruption from one await to the next.   *)
(***************************************************************************)
MONITOR_CONCURRENCY_LIMIT == 100
MaxUrls == 2          \* URLs given to one run_many call
Urls == {"u1", "u2"}
ScanRisks == {10, 45, 80}
Concurrencies == {0, 1, 2}   \* 0 stands for a concurrency of None or 0

\* settings.MONITOR_RISK_THRESHOLDS as config.py declares it
MONITOR_RISK_THRESHOLDS == [LOW |-> 30, MEDIUM |-> 60, HIGH |-> 100]

\* _resolve_thresholds: the configured dict, a missing key at its default
_resolve_thresholds(thresholds) ==
    [LOW |-> Get(thresholds, "LOW", 30),
     MEDIUM |-> Get(thresholds, "MEDIUM", 60),
     HIGH |-> Get(thresholds, "HIGH", 100)]

\* lines 38-43: which narrative run(url) asks for at a risk score
NarrativeMode(thresholds, risk) ==
    IF risk < thresholds.LOW THEN "none"
    ELSE IF risk < thresholds.MEDIUM THEN "light"
    ELSE "full"

\* cache_key: sha256 of the value, one key per distinct value
cache_key(value) == "sha256(" \o value \o ")"
CacheKeys == {cache_key(u) : u \in Urls}

\* json.dumps / json.loads on a dict of str keys whose values are str, int,
\* bool, None, lists and such dicts: the text, and the value read back from it
json_dumps(value) == [text |-> value]
json_loads(file) == file.text

\* cache.get: None when the file does not exist, else the parsed content
get(files, key) == IF files[key] = Nothing THEN Nothing ELSE json_loads(files[key])
\* cache.set: the file is written with the dumped value
set(files, key, value) == [files EXCEPT ![key] = json_dumps(value)]

\* a lookup that never hits
CacheHit_never(cached) == FALSE

\* line 28: `if cached:` -- not None and not an empty dict
CacheHit(cached) == cached # Nothing /\ DOMAIN cached # {}

\* ai_preview: templated text from the scan, no call to the narrative service
ai_preview(scan) ==
    LET risk_score == scan.overall_risk_score IN
    [summary |-> IF risk_score >= 70 THEN "High compliance risk detected"
                 ELSE IF risk_score >= 40 THEN "Medium compliance risk detected"
                 ELSE "Low compliance risk",
     risk_score |-> risk_score]

NoCelery == [state |-> "none", retries |-> 0, executions |-> 0, countdowns |-> <<>>]

NoMonitor ==
    [urls |-> <<>>, limit |-> 0, permits |-> 0, anchor_enabled |-> TRUE,
     thresholds |-> MONITOR_RISK_THRESHOLDS,
     outcome |-> [kind |-> "idle"], loop |-> "running"]

NewTask(url) ==
    [url |-> url, pc |-> "waiting", began |-> Nothing, scan |-> Nothing,
     ai |-> Nothing, report |-> Nothing, result |-> Nothing, calls |-> {}]

Waiting == {i \in 1..Len(tasks) : tasks[i].pc = "waiting"}
InProgress == {i \in 1..Len(tasks) : tasks[i].pc \in {"scan", "ai", "anchor"}}

EngineUnchanged == UNCHANGED <<anchorCalls, hook, batchCall, policyVars, envVars, celery, now, exists,
                               report, events, stamp, flowVars>>

\* line 66: limit = concurrency or settings.MONITOR_CONCURRENCY_LIMIT
Limit(concurrency) ==
    IF concurrency = 0 THEN MONITOR_CONCURRENCY_LIMIT ELSE concurrency

\* run_many, lines 66-73: the semaphore and one task per URL
RunMany(urls, concurrency, anchor_enabled) ==
    /\ monitor.outcome.kind = "idle"
    /\ monitor' = [monitor EXCEPT !.urls = urls, !.limit = Limit(concurrency),
                                    !.permits = Limit(concurrency),
                                    !.anchor_enabled = anchor_enabled,
                                    !.outcome = [kind |-> "pending"]]
    /\ tasks' = [i \in 1..Len(urls) |-> NewTask(urls[i])]
    /\ UNCHANGED <<cacheFiles, ledgerVars, shaTable>>
    /\ EngineUnchanged

\* a semaphore that lets every task in
SlotFree_always(permits) == TRUE

\* asyncio.Semaphore.acquire: a permit is available
SlotFree(permits) == permits > 0

\* lines 70-31: the task longest waiting acquires the semaphore and run(url)
\* looks the URL up; a hit returns the cached dict and releases the
\* semaphore at once, a miss awaits the scanner
StartRun(i) ==
    /\ monitor.loop = "running"
    /\ i \in Waiting
    /\ \A j \in Waiting : i <= j
    /\ SlotFree(monitor.permits)
    /\ LET key == cache_key(tasks[i].url)
           cached == get(cacheFiles, key)
           t == [tasks[i] EXCEPT !.began = cacheFiles[key]]
       IN
       IF CacheHit(cached)
       THEN /\ tasks' = [tasks EXCEPT ![i] = [t EXCEPT !.pc = "done", !.result = cached]]
            /\ UNCHANGED monitor
       ELSE /\ tasks' = [tasks EXCEPT ![i] =
                            [t EXCEPT !.pc = "scan", !.calls = @ \cup {"scanner"}]]
            /\ monitor' = [monitor EXCEPT !.permits = @ - 1]
    /\ UNCHANGED <<cacheFiles, ledgerVars, shaTable>>
    /\ EngineUnchanged

\* the task ends with an exception: `async with` releases the semaphore
Fails(i) ==
    /\ tasks' = [tasks EXCEPT ![i].pc = "failed"]
    /\ monitor' = [monitor EXCEPT !.permits = @ + 1]
    /\ UNCHANGED <<cacheFiles, ledgerVars, shaTable>>

\* lines 59-62 and 70: blockchain_tx_hash, set(key, report), return, release
Stores(i, t, rep, tx_hash) ==
    LET final == rep @@ [blockchain_tx_hash |-> tx_hash] IN
    /\ cacheFiles' = set(cacheFiles, cache_key(t.url), final)
    /\ tasks' = [tasks EXCEPT ![i] = [t EXCEPT !.pc = "done", !.report = final,
                                               !.result = final]]
    /\ monitor' = [monitor EXCEPT !.permits = @ + 1]

\* lines 45-56: the report, its notary hash, then the anchoring call when
\* MONITOR_ANCHOR_ENABLED, else straight to the store
Notarizes(i, t, ai) ==
    LET body == [url |-> t.url, scan |-> t.scan, ai |-> ai]
        rep == body @@ [notary_hash |-> Sha256(shaTable, body)]
    IN
    /\ shaTable' = Hashed(shaTable, body)
    /\ IF monitor.anchor_enabled
       THEN /\ tasks' = [tasks EXCEPT ![i] =
                   [t EXCEPT !.pc = "anchor", !.ai = ai, !.report = rep,
                             !.calls = @ \cup {"ledger"}]]
            /\ UNCHANGED <<cacheFiles, monitor>>
       ELSE Stores(i, [t EXCEPT !.ai = ai], rep, None)
    /\ UNCHANGED ledgerVars


\* lines 31-43: the scanner returns its model (dumped to a dict of str, int,
\* bool and list values) or raises; a risk below LOW needs no
\* narrative, one below MEDIUM takes the template, else ai_full is awaited
ScanReturns(i, scannerUp, risk) ==
    /\ monitor.loop = "running"
    /\ i \in 1..Len(tasks)
    /\ tasks[i].pc = "scan"
    /\ IF ~scannerUp
       THEN Fails(i)
       ELSE LET scan_payload == [url |-> tasks[i].url, overall_risk_score |-> risk]
                t == [tasks[i] EXCEPT !.scan = scan_payload]
                mode == NarrativeMode(_resolve_thresholds(monitor.thresholds), risk)
            IN
            IF mode = "none"
            THEN Notarizes(i, t, Nothing)
            ELSE IF mode = "light"
            THEN Notarizes(i, t, ai_preview(scan_payload))
            ELSE /\ tasks' = [tasks EXCEPT ![i] =
                        [t EXCEPT !.pc = "ai", !.calls = @ \cup {"narrative"}]]
                 /\ UNCHANGED <<cacheFiles, monitor, ledgerVars, shaTable>>
    /\ EngineUnchanged

\* line 43: ai_full returns the generated report or raises
AiReturns(i, generatorUp) ==
    /\ monitor.loop = "running"
    /\ i \in 1..Len(tasks)
    /\ tasks[i].pc = "ai"
    /\ IF ~generatorUp
       THEN Fails(i)
       ELSE Notarizes(i, tasks[i], [summary |-> "compliance report"])
    /\ EngineUnchanged

\* lines 53-62: anchor_evidence returns a reference or raises; the error is
\* logged and the report stored with blockchain_tx_hash None
AnchorReturns(i, statusUp, sendUp) ==
    /\ monitor.loop = "running"
    /\ i \in 1..Len(tasks)
    /\ tasks[i].pc = "anchor"
    /\ LET h == tasks[i].report.notary_hash
           out == anchor_evidence(chainAnchored, Len(txs), h, statusUp,
                                  config.key_set, sendUp)
       IN
       /\ LedgerAfter(out, h)
       /\ Stores(i, tasks[i], tasks[i].report,
                 IF out.raised THEN None ELSE out.result)
    /\ UNCHANGED shaTable
    /\ EngineUnchanged

\* a gather that returns the results last task first
GatherResults_reversed(ts) == [i \in 1..Len(ts) |-> ts[Len(ts) + 1 - i].result]

\* asyncio.gather(*tasks): the results in the order of the tasks
GatherResults(ts) == [i \in 1..Len(ts) |-> ts[i].result]

\* line 74: every task has returned; run_many returns the list
GatherReturns ==
    /\ monitor.loop = "running"
    /\ monitor.outcome.kind = "pending"
    /\ \A i \in 1..Len(tasks) : tasks[i].pc = "done"
    /\ monitor' = [monitor EXCEPT
                      !.outcome = [kind |-> "returned", results |-> GatherResults(tasks)]]
    /\ UNCHANGED <<cacheFiles, tasks, ledgerVars, shaTable>>
    /\ EngineUnchanged

\* line 74: gather has no return_exceptions; the first exception of a task
\* is raised to the caller of run_many while the other tasks stay scheduled
GatherRaises ==
    /\ monitor.loop = "running"
    /\ monitor.outcome.kind = "pending"
    /\ \E i \in 1..Len(tasks) : tasks[i].pc = "failed"
    /\ monitor' = [monitor EXCEPT !.outcome = [kind |-> "raised"]]
    /\ UNCHANGED <<cacheFiles, tasks, ledgerVars, shaTable>>
    /\ EngineUnchanged

\* runtime/main.py line 16: asyncio.run(main()) ends when main returns or
\* raises, and cancels every task of the loop that has not finished
LoopShutdown ==
    /\ monitor.loop = "running"
    /\ monitor.outcome.kind \in {"returned", "raised"}
    /\ monitor' = [monitor EXCEPT !.loop = "closed"]
    /\ tasks' = [i \in 1..Len(tasks) |->
                    IF tasks[i].pc \in {"done", "failed"} THEN tasks[i]
                    ELSE [tasks[i] EXCEPT !.pc = "cancelled"]]
    /\ UNCHANGED <<cacheFiles, ledgerVars, shaTable>>
    /\ EngineUnchanged

(***************************************************************************)
(* The task dispatcher: process_report_task, app/workers/tasks.py lines    *)
(* 240-266, a Celery task bound with max_retries = 3.  Task.retry is       *)
(* Celery's: it sends the task again with request.retries + 1 and the      *)
(* countdown given unless that count exceeds max_retries, in which case it *)
(* raises the exception and sends nothing.                                 *)
(***************************************************************************)
max_retries == 3

DispatchUnchanged == UNCHANGED <<ledgerVars, anchorCalls, hook, batchCall, policyVars, envVars, engineVars,
                                 now, exists, events, stamp, shaTable, queued, poll,
                                 responses, lastResponse, triggers>>

\* the run slot the worker's call of process_report_workflow uses
WorkerRun == 1

\* process_report_task.delay(report_id): the first message, retries = 0
TaskEnqueued ==
    /\ exists
    /\ celery.state = "none"
    /\ celery' = [celery EXCEPT !.state = "queued"]
    /\ UNCHANGED <<runs, report>>
    /\ DispatchUnchanged

\* line 245: a worker takes the message and runs the workflow
TaskExecutes ==
    /\ celery.state = "queued"
    /\ celery' = [celery EXCEPT !.state = "running", !.executions = @ + 1]
    /\ runs' = [runs EXCEPT ![WorkerRun] = NewRun("celery")]
    /\ UNCHANGED report
    /\ DispatchUnchanged

\* lines 247-248: the workflow returned (completed or blocked)
TaskReturns ==
    /\ celery.state = "running"
    /\ At(WorkerRun, "done")
    /\ celery' = [celery EXCEPT !.state = "succeeded"]
    /\ UNCHANGED <<runs, report>>
    /\ DispatchUnchanged

\* a backoff that does not grow
countdown_flat(retries) == 60

\* line 265: countdown = 60 * (2**self.request.retries)
countdown(retries) == 60 * (2 ^ retries)

\* lines 250-266: the workflow raised; status failed is persisted in a
\* session of its own, then self.retry(exc=exc, countdown=countdown)
TaskExcept ==
    /\ celery.state = "running"
    /\ At(WorkerRun, "raised")
    /\ report' = [report EXCEPT !.status = "failed"]
    /\ LET retries == celery.retries + 1 IN
       IF retries > max_retries
       THEN celery' = [celery EXCEPT !.state = "dead"]
       ELSE celery' = [celery EXCEPT !.state = "queued", !.retries = retries,
                          !.countdowns = Append(@, countdown(celery.retries))]
    /\ runs' = [runs EXCEPT ![WorkerRun] = IdleRun]
    /\ DispatchUnchanged

(***************************************************************************)
(* Specifications                                                          *)
(***************************************************************************)
InitCommon ==
    /\ chainAnchored = {} /\ mempool = {} /\ txs = <<>> /\ anchorCalls = <<>>
    /\ batchCall = NoBatchCall
    /\ hook = NoHook
    /\ polResult = Pending
    /\ now = 0
    /\ exists = FALSE /\ report = NoReport /\ events = {} /\ stamp = 0
    /\ shaTable = <<>>
    /\ runs = [r \in RunIds |-> IdleRun]
    /\ queued = 0 /\ poll = NoPoll /\ responses = 0 /\ lastResponse = NoResponse
    /\ triggers = <<>>
    /\ celery = NoCelery
    /\ cacheFiles = [k \in CacheKeys |-> Nothing] /\ tasks = <<>> /\ monitor = NoMonitor

\* the namespaces the workflow is run in: the module as shipped, and one
\* that binds both names to the empty string
WorkflowGlobals == {ShippedGlobals, [tier |-> "", product_type |-> ""]}
WorkflowFrameworks == {"pdpa_free_scan", "pdpa_pro"}
AccessStatuses == {None, "SUSPENDED"}
\* processing_attempts as the request's own assessment_data may carry it
SuppliedAttempts == {0, MAX_PROCESSING_ATTEMPTS}

Init ==
    /\ InitCommon
    /\ polInput = [data |-> EmptyDict, framework |-> None]
    /\ enfGlobals \in WorkflowGlobals
    /\ config = [skip_pdf |-> TRUE, key_set |-> TRUE]

\* llm, ledger and mail are the outcomes the narrative service, the chain's
\* RPC and the notifier can have (TRUE: the call succeeds)
WorkflowStep(r, llm, ledger, mail) ==
    \/ WorkflowPolicy(r)
    \/ SiteScanCall(r)
    \/ SiteScanCommit(r)
    \/ \E up \in llm : Narrative(r, up)
    \/ EvidenceHash(r)
    \/ AppendAuditQuery(r)
    \/ AppendAuditCommit(r)
    \/ \E statusUp \in ledger, sendUp \in ledger : AnchorStage(r, statusUp, sendUp)
    \/ Screenshot(r)
    \/ Finalize(r)
    \/ \E constructs \in mail, sends \in mail : Notify(r, constructs, sends)
    \/ ExceptHandler(r)

\* a step of a run the API started: the workflow, or the catch of
\* _run_report_workflow_sync around it
RunStep(r, llm, ledger, mail) ==
    \/ WorkflowStep(r, llm, ledger, mail)
    \/ RunSyncExcept(r)

\* the stages of the PDF artifact, reached when SKIP_PDF_GENERATION is off
ArtifactStep(r) ==
    \/ \E up \in BOOLEAN : Render(r, up)
    \/ \E up \in BOOLEAN : UploadAttempt(r, up)

\* Requests are served one after the other: a run starts when no other is in
\* progress, and the clock moves between runs.
Serial == LiveRuns = {} /\ ~poll.active

Next ==
    \/ \E p \in BOOLEAN, a \in SuppliedAttempts : CreateReport("pdpa_pro", None, p, a)
    \/ \E p \in BOOLEAN, a \in SuppliedAttempts :
          CreateReportPublic("pdpa_pro", None, p, a)
    \/ Serial /\ StartTask
    \/ \E r \in RunIds : RunStep(r, BOOLEAN, {TRUE}, {TRUE})
    \/ \E sp \in BOOLEAN, force \in BOOLEAN, debug \in BOOLEAN :
          /\ responses < MaxPolls
          /\ force => Serial
          /\ PollRequest(sp, force, debug)
    \/ PollFinish
    \/ Serial /\ Tick

Spec == Init /\ [][Next]_vars

\* Runs in progress at the same time: the background task of the intake or
\* of a poll, and the run a forced poll awaits.
NextRace ==
    \/ \E p \in BOOLEAN : CreateReport("pdpa_pro", None, p, 0)
    \/ \E p \in BOOLEAN : CreateReportPublic("pdpa_pro", None, p, 0)
    \/ StartTask
    \/ \E r \in RunIds : RunStep(r, {TRUE}, {TRUE}, {TRUE})
    \/ \E sp \in BOOLEAN, force \in BOOLEAN, debug \in BOOLEAN :
          /\ responses < MaxRacePolls
          /\ PollRequest(sp, force, debug)
    \/ PollFinish
    \/ LedgerMine

SpecRace == Init /\ [][NextRace]_vars

\* one report, processed by the run its intake starts
InitRun ==
    /\ InitCommon
    /\ polInput = [data |-> EmptyDict, framework |-> None]
    /\ enfGlobals \in WorkflowGlobals
    /\ config \in [skip_pdf : BOOLEAN, key_set : BOOLEAN]

NextRun ==
    \/ \E f \in WorkflowFrameworks, a \in AccessStatuses, p \in BOOLEAN :
          CreateReport(f, a, p, 0)
    \/ StartTask
    \/ \E r \in RunIds : RunStep(r, BOOLEAN, BOOLEAN, BOOLEAN)
    \/ \E r \in RunIds : ArtifactStep(r)
    \/ LedgerMine

SpecRun == InitRun /\ [][NextRun]_vars

InitLedger ==
    /\ InitCommon
    /\ polInput = [data |-> EmptyDict, framework |-> None]
    /\ enfGlobals = ShippedGlobals
    /\ config \in [skip_pdf : {TRUE}, key_set : BOOLEAN]

NextLedger ==
    \/ \E h \in Digests, statusUp \in BOOLEAN, sendUp \in BOOLEAN :
          AnchorEvidence(h, statusUp, sendUp)
    \/ LedgerMine

SpecLedger == InitLedger /\ [][NextLedger]_vars

InitPolicy ==
    /\ InitCommon
    /\ polInput \in PolicyInputs
    /\ enfGlobals \in AllGlobals
    /\ config = [skip_pdf |-> TRUE, key_set |-> FALSE]

NextPolicy == Resolve

SpecPolicy == InitPolicy /\ [][NextPolicy]_vars

\* enforce_tier on inputs whose assessment_data carries tier and product_type
InitTier ==
    /\ InitCommon
    /\ polInput \in TierInputs
    /\ enfGlobals \in AllGlobals
    /\ config = [skip_pdf |-> TRUE, key_set |-> FALSE]

NextTier == Resolve

SpecTier == InitTier /\ [][NextTier]_vars

\* one run_many call over any list of URLs, with every outcome of the
\* scanner, the narrative service and the ledger
UrlLists == UNION {[1..n -> Urls] : n \in 1..MaxUrls}

InitMonitor ==
    /\ InitCommon
    /\ polInput = [data |-> EmptyDict, framework |-> None]
    /\ enfGlobals = ShippedGlobals
    /\ config = [skip_pdf |-> TRUE, key_set |-> TRUE]

EngineStep ==
    \/ \E i \in 1..MaxUrls : StartRun(i)
    \/ \E i \in 1..MaxUrls, up \in BOOLEAN, risk \in ScanRisks : ScanReturns(i, up, risk)
    \/ \E i \in 1..MaxUrls, up \in BOOLEAN : AiReturns(i, up)
    \/ \E i \in 1..MaxUrls, up \in BOOLEAN : AnchorReturns(i, up, up)
    \/ GatherReturns
    \/ GatherRaises

NextMonitor ==
    \/ \E urls \in UrlLists, k \in Concurrencies, a \in BOOLEAN : RunMany(urls, k, a)
    \/ EngineStep
    \/ LoopShutdown

SpecMonitor == InitMonitor /\ [][NextMonitor]_vars

\* the event loop runs a task that is ready, and every awaited collaborator
\* returns or raises in the end
SpecMonitorFair == SpecMonitor /\ WF_vars(EngineStep)

\* one report handed to process_report_task, the narrative service up or
\* down at each execution
InitDispatch ==
    /\ InitCommon
    /\ polInput = [data |-> EmptyDict, framework |-> None]
    /\ enfGlobals \in WorkflowGlobals
    /\ config = [skip_pdf |-> TRUE, key_set |-> TRUE]

NextDispatch ==
    \/ \E f \in WorkflowFrameworks, p \in BOOLEAN : CreateReportPublic(f, None, p, 0)
    \/ TaskEnqueued
    \/ TaskExecutes
    \/ WorkflowStep(WorkerRun, BOOLEAN, {TRUE}, {TRUE})
    \/ TaskReturns
    \/ TaskExcept

SpecDispatch == InitDispatch /\ [][NextDispatch]_vars

\* the life of one report: either intake, with or without a denylisted
\* status and a payment flag, the runs its intake and its polls start, polls
\* served between the runs
NextLifecycle ==
    \/ \E a \in AccessStatuses, p \in BOOLEAN : CreateReport("pdpa_pro", a, p, 0)
    \/ \E a \in AccessStatuses, p \in BOOLEAN : CreateReportPublic("pdpa_pro", a, p, 0)
    \/ Serial /\ StartTask
    \/ \E r \in RunIds : RunStep(r, BOOLEAN, {TRUE}, {TRUE})
    \/ \E sp \in BOOLEAN, force \in BOOLEAN :
          /\ responses < MaxPolls
          /\ Serial
          /\ PollRequest(sp, force, FALSE)
    \/ PollFinish

SpecLifecycle == Init /\ [][NextLifecycle]_vars

\* run(url) on one uncached URL under any configured thresholds
\* LOW < MEDIUM < HIGH and any risk score the scanner's model admits
RiskScores == 0..100
ThresholdConfigs ==
    {[LOW |-> l, MEDIUM |-> m, HIGH |-> h] : l \in {20, 30}, m \in {50, 60}, h \in {90, 100}}

InitChoice ==
    /\ InitCommon
    /\ polInput = [data |-> EmptyDict, framework |-> None]
    /\ enfGlobals = ShippedGlobals
    /\ config = [skip_pdf |-> TRUE, key_set |-> TRUE]

\* settings are read from the environment when the process starts
Configure(thresholds) ==
    /\ monitor = NoMonitor
    /\ tasks = <<>>
    /\ monitor' = [monitor EXCEPT !.thresholds = thresholds]
    /\ UNCHANGED <<cacheFiles, tasks, ledgerVars, shaTable>>
    /\ EngineUnchanged

NextChoice ==
    \/ \E t \in ThresholdConfigs : Configure(t)
    \/ \E u \in Urls : RunMany(<<u>>, 1, FALSE)
    \/ StartRun(1)
    \/ \E risk \in RiskScores : ScanReturns(1, TRUE, risk)
    \/ \E up \in BOOLEAN : AiReturns(1, up)

SpecChoice == InitChoice /\ [][NextChoice]_vars

\* batch_anchor_hashes called again and again on lists of evidence hashes
BatchInputs == UNION {[1..n -> RawHashes] : n \in 0..MaxBatch}

NextBatch ==
    \/ \E hs \in BatchInputs, sendUp \in BOOLEAN :
          \E rpcDown \in SUBSET (1..Len(hs)) :
             BatchAnchorHashes(hs, rpcDown, sendUp)
    \/ BatchMine

SpecBatch == InitLedger /\ [][NextBatch]_vars

\* the API's requests with the event loop and the worker threads scheduled
\* fairly: a run that can take its next step takes it
SpecFair == Spec /\ WF_vars(\E r \in RunIds : RunStep(r, BOOLEAN, {TRUE}, {TRUE}))

\* one report, the run its intake starts, and the payment webhook for it
NextHook ==
    \/ \E f \in WorkflowFrameworks, p \in BOOLEAN : CreateReport(f, None, p, 0)
    \/ StartTask
    \/ \E r \in RunIds : RunStep(r, BOOLEAN, {TRUE}, {TRUE})
    \/ \E product_type \in {None, "pdpa_pro"}, statusUp \in BOOLEAN, sendUp \in BOOLEAN :
          StripeWebhook(product_type, statusUp, sendUp)
    \/ \E renderUp \in BOOLEAN, uploadUp \in BOOLEAN, constructs \in BOOLEAN :
          WebhookRegenerate(renderUp, uploadUp, constructs)
    \/ LedgerMine

SpecHook == Init /\ [][NextHook]_vars

(***************************************************************************)
(* Properties                                                              *)
(***************************************************************************)

\* C1: for any digest, two anchor_evidence calls made one after the other
\* submit one write transaction between them, and the second call returns the
\* transaction reference the first call returned.
C1_AnchorTwice ==
    \A i \in 1..(Len(anchorCalls) - 1) :
        LET first == anchorCalls[i]
            second == anchorCalls[i + 1]
        IN
        (first.hash = second.hash /\ ~first.raised /\ ~second.raised)
            => (second.result = first.result /\ ~second.sent)

C11_FreeScanCompletes ==
    \A r \in RunIds :
        (/\ runs[r].pc \in {"done", "raised"}
         /\ report.framework = "pdpa_free_scan"
         /\ ~Has(report.ad, "payment_confirmed")
         /\ ~Has(report.ad, "access_status")
         /\ runs[r].exc \notin CollaboratorErrors)
            => /\ ~runs[r].policy.raised
               /\ runs[r].policy.tier = FREE
               /\ ~runs[r].policy.paid
               /\ report.status = "completed"
               /\ Has(report.ad, "pdf_generated")
               /\ report.ad["pdf_generated"] = FALSE
               /\ Has(report.ad, "pdf_reason")
               /\ report.ad["pdf_reason"] = "tier_restriction"
               /\ report.tx_hash = None

\* C12: a run on a report with payment_confirmed true and a product key of
\* the PRO set, in which no collaborator failed, resolves tier PRO, paid
\* true and features.pdf true and ends with audit_hash and s3_url non-null.
C12_PaidProArtifact ==
    \A r \in RunIds :
        (/\ runs[r].pc \in {"done", "raised"}
         /\ Has(report.ad, "payment_confirmed")
         /\ Has(report.ad, "product_type")
         /\ report.ad["product_type"] \in PRO_PRODUCT_KEYS
         /\ ~Has(report.ad, "access_status")
         /\ runs[r].exc \notin CollaboratorErrors)
            => /\ ~runs[r].policy.raised
               /\ runs[r].policy.tier = PRO
               /\ runs[r].policy.paid
               /\ Feature(runs[r].policy, "pdf")
               /\ report.audit_hash # None
               /\ report.s3_url # None

\* C13: when any of access_status, subscription_status, plan_status holds a
\* denylisted value, the policy returned has allowed = false and reason
\* "status:<value>" for such a value, whatever the other two fields hold;
\* the same for check_access.
C13_AnyAliasDenies ==
    LET d == polInput.data
        listed == {_normalize(Get(d, k, None)) :
                      k \in {"access_status", "subscription_status", "plan_status"}}
                    \cap blocked_statuses
        reasons == {"status:" \o v : v \in listed}
    IN
    (polResult # Pending /\ listed # {}) =>
        /\ ~polResult.raised
        /\ ~polResult.allowed
        /\ polResult.reason \in reasons
        /\ ~check_access(d).allowed
        /\ check_access(d).reason \in reasons

\* C14: for every allowed input enforce_tier returns, and the tier it
\* returns is the first match of: enterprise tier hint, PRO product key,
\* paid tier hint, free framework, free tier hint, paid framework, else FREE.
C14_TierPrecedence ==
    LET d == polInput.data
        hint == _normalize(Get(d, "tier", None))
        product == Get(d, "product_type", None)
        fw == _normalize(polInput.framework)
        expected ==
            IF hint \in {"enterprise", "ent", "enterprise_monthly"} THEN ENTERPRISE
            ELSE IF product \in PRO_PRODUCT_KEYS THEN PRO
            ELSE IF hint \in {"pro", "paid", "standard", "business"} THEN PRO
            ELSE IF fw \in FREE_FRAMEWORKS THEN FREE
            ELSE IF hint \in {"free", "starter", "trial"} THEN FREE
            ELSE IF fw \in {"pdpa_quick_scan", "pdpa_basic", "pdpa_pro"} THEN PRO
            ELSE FREE
    IN
    (polResult # Pending /\ check_access(d).allowed) =>
        /\ ~polResult.raised
        /\ polResult.tier = expected


\* a task of run_many whose run(url) found the file of its URL in the cache
HitCache(i) == tasks[i].began # Nothing

Started(i) == i \in 1..Len(tasks) /\ tasks[i].pc \in {"scan", "ai", "anchor", "done", "failed"}

\* run_many has been called and has neither returned nor raised
DuringRunMany == monitor.outcome.kind = "pending"

\* C16: during run_many with concurrency k >= 1 (k = limit), never more than
\* k executions of run are in progress, and the run of a URL that waits
\* while a slot is free is started in the end.
C16_BoundedPool ==
    /\ [](Cardinality(InProgress) <= monitor.limit)
    /\ \A i \in 1..MaxUrls :
          (DuringRunMany /\ i \in Waiting /\ monitor.permits > 0)
              ~> (Started(i) \/ ~DuringRunMany)

\* the pool is full with a task waiting, and later that task has run
C16_Witness ==
    \E i \in 1..Len(tasks) :
        /\ monitor.limit < Len(tasks)
        /\ i > monitor.limit
        /\ tasks[i].pc = "done" /\ ~HitCache(i)
        /\ DuringRunMany


\* C17: in run_many, when run fails for one URL, the run of no other URL is
\* cancelled or skipped: no other task ends cancelled, and once the event
\* loop has closed every other task has run to its end, its result stored.
C17_FailureIsolated ==
    \A i, j \in 1..Len(tasks) :
        (tasks[i].pc = "failed" /\ j # i)
            => /\ tasks[j].pc # "cancelled"
               /\ monitor.loop = "closed" /\ tasks[j].pc # "failed"
                    => /\ tasks[j].pc = "done"
                       /\ get(cacheFiles, cache_key(tasks[j].url)) # Nothing


\* C18: when every run succeeds, run_many returns a list with one result per
\* input URL, duplicates included, the i-th result being what run returned
\* for the i-th URL.
C18_OneResultPerUrl ==
    monitor.outcome.kind = "returned" =>
        LET results == monitor.outcome.results IN
        /\ Len(results) = Len(monitor.urls)
        /\ \A i \in 1..Len(monitor.urls) :
              /\ tasks[i].url = monitor.urls[i]
              /\ tasks[i].pc = "done"
              /\ results[i] = tasks[i].result
              /\ results[i].url = monitor.urls[i]

\* run_many has returned for a list that names one URL twice, with two
\* results that differ
C18_Witness ==
    /\ monitor.outcome.kind = "returned"
    /\ Len(monitor.urls) = 2
    /\ monitor.urls[1] = monitor.urls[2]
    /\ Len(monitor.outcome.results) = 2
    /\ monitor.outcome.results[1] # monitor.outcome.results[2]


\* the task has given up: its last execution failed and nothing is queued
GaveUp == celery.state = "dead"

\* C19: when the workflow fails at every execution, process_report_task
\* sends itself again with a delay of 60 * 2^n seconds for retry n = 0, 1, 2,
\* executes the workflow at most max_retries + 1 = 4 times, and after the
\* last failure sends nothing more and leaves the report's status failed.
C19_RetryBackoff ==
    /\ [](/\ celery.executions <= max_retries + 1
          /\ Len(celery.countdowns) = celery.retries
          /\ \A n \in 0..(Len(celery.countdowns) - 1) :
                celery.countdowns[n + 1] = 60 * (2 ^ n)
          /\ celery.state = "queued" => celery.executions = celery.retries
          /\ GaveUp => /\ celery.executions = 4
                       /\ celery.countdowns = <<60, 120, 240>>
                       /\ report.status = "failed")
    /\ [][GaveUp => celery' = celery /\ report'.status = "failed"]_vars

\* four executions have failed and the task has given up
C19_Witness ==
    /\ GaveUp
    /\ celery.executions = 4
    /\ Len(celery.countdowns) = 3
    /\ report.status = "failed"


\* keys only the polling endpoint, the payment webhook or the intake set
PaymentKeys == {"payment_confirmed", "processing_attempts", "last_processing_attempt_at"}

ReportStatuses == {"pending", "processing", "blocked", "failed", "completed"}

\* C22: in every reachable state the report's status is one of pending,
\* processing, blocked, failed, completed; and a report that has just been
\* created has status pending or processing, never a terminal one.
C22_StatusDomain ==
    /\ [](report.status \in ReportStatuses)
    /\ [](~exists => report.status = "pending")
    /\ [][(~exists /\ exists') => report'.status \in {"pending", "processing"}]_vars

\* a created report has reached a terminal status and has been polled
C22_Witness ==
    /\ exists
    /\ report.status \in Terminal
    /\ responses > 0

ChosenMode(t) ==
    IF "narrative" \in t.calls THEN "full"
    ELSE IF t.ai # Nothing THEN "light"
    ELSE "none"

\* C25: on a cache miss with thresholds LOW < MEDIUM < HIGH and risk score r,
\* no narrative iff r < LOW, the light one iff LOW <= r < MEDIUM, the full one
\* iff r >= MEDIUM; and all three thresholds take part in the choice: there
\* is a score at which another HIGH alone gives another mode.
C25_ThreeThresholds ==
    LET th == _resolve_thresholds(monitor.thresholds) IN
    \A i \in 1..Len(tasks) :
          tasks[i].scan # Nothing =>
              LET r == tasks[i].scan.overall_risk_score
                  mode == ChosenMode(tasks[i])
              IN
              /\ mode = "none" <=> r < th.LOW
              /\ mode = "light" <=> (th.LOW <= r /\ r < th.MEDIUM)
              /\ mode = "full" <=> r >= th.MEDIUM
              /\ \E score \in RiskScores : \E h \in (th.MEDIUM + 1)..100 :
                    NarrativeMode([th EXCEPT !.HIGH = h], score) # NarrativeMode(th, score)

\* the write transactions the last batch_anchor_hashes call submitted
BatchSubmitted == SubSeq(txs, batchCall.before + 1, Len(txs))

\* the input hashes the call's status lookups did not report anchored, in
\* input order, in the form the contract takes them
RECURSIVE NotReported(_)
NotReported(n) ==
    IF n = 0 THEN <<>>
    ELSE IF batchCall.reported[n] THEN NotReported(n - 1)
    ELSE Append(NotReported(n - 1), _hash_to_bytes32(batchCall.hashes[n]))

\* C26: a batch_anchor_hashes call submits at most one write transaction, and
\* that transaction contains exactly the input hashes not reported anchored;
\* when every input hash is reported anchored it submits none and succeeds.
C26_BatchOnce ==
    batchCall.made =>
        LET missing == NotReported(Len(batchCall.hashes)) IN
        /\ Len(BatchSubmitted) <= 1
        /\ \A i \in 1..Len(BatchSubmitted) : BatchSubmitted[i].batch = missing
        /\ missing = <<>> => (BatchSubmitted = <<>> /\ ~batchCall.raised)

\* a call on two hashes, one reported anchored, that sent a transaction
C26_Witness ==
    /\ batchCall.made
    /\ Len(batchCall.hashes) = 2
    /\ batchCall.reported[1] /\ ~batchCall.reported[2]
    /\ Len(BatchSubmitted) = 1

SubmittedFor(ref, h) == \E i \in 1..Len(txs) : txs[i].ref = ref /\ txs[i].hash = h

C30_OneTxPerDigest ==
    \A i, j \in 1..Len(txs) : txs[i].hash = txs[j].hash => i = j

====
